---- MODULE Spec2Model ----
(***************************************************************************)
(* Model of tools/454hex2dfu.c: the command-line tool that converts a      *)
(* PIC16F1454 Intel HEX file into a DFU binary (program-memory image,      *)
(* modified CRC-14 stored in the image, 16-byte DFU suffix with CRC-32).   *)
(*                                                                         *)
(* The state is main()'s locals, the two files and the resources main      *)
(* holds; pc is main's position.  Loops that only compute (the sentinel    *)
(* fill, the CRC-14 pass, crc32_calc) are one action each, computed by an  *)
(* operator that runs the loop body; the record-reading loop and the       *)
(* per-byte data loop are stepped, one action per iteration.               *)
(*                                                                         *)
(* 32-bit values that exceed the model checker's integers (the CRC-32      *)
(* register, the table entries) are kept as four bytes, least significant  *)
(* first, so their width is exact.  The scratch locals line, count and ptr *)
(* are kept only while the data loop reads them; the code always assigns   *)
(* them again before the next read.                                        *)
(***************************************************************************)
EXTENDS Integers, Sequences, FiniteSets, TLC

\* ---------------------------------------------------------------- constants

PM_SIZE_IN_BYTES == 16384
CODE_OFFSET_ADDRESS == 512
HIGH_ENDURANCE_ADDRESS == 8064
DFU_SUFFIX == 16
USB_PRODUCT_ID == 1
USB_VENDOR_ID == 4660

\* The window test of the data loop: address < 0x400, address >= 0x8000.
WindowLow == 1024
WindowHigh == 32768

\* The feedback constant of calc_modified_crc14.
Crc14Poly == 9137

\* ------------------------------------------------------------------- bounds

\* The most lines the input file holds.
MaxLines == 3

\* The most iterations of the CRC-14 loop (and of crc32_calc's loop) that are
\* run before the loop is reported as not ending.
MaxIter == 16400

\* The argument counts main is started with.
ArgCounts == {2, 3}

\* The value of a byte that was never stored (malloc's memory).
Indeterminate == -1

\* The file at the output path: opened says whether the program has created
\* or truncated it, bytes is what the program has written to it.  Before it
\* is opened the path holds whatever was there before the run.
Untouched == [opened |-> FALSE, bytes |-> <<>>]

\* ------------------------------------------------------------------ buffers

\* A buffer of n bytes (the image, the bytes of a file) is held as rows of
\* RowSize bytes, the last row holding the rest: byte a of the buffer is
\* buf[a \div RowSize][a % RowSize].
RowSize == 16 * 16

\* buf[a]
At(buf, a) == buf[a \div RowSize][a % RowSize]

\* buf[a] = v
StoreAt(buf, a, v) == [buf EXCEPT ![a \div RowSize][a % RowSize] = v]

\* The buffer of n bytes whose byte a is f[a].
Buffer(n, f) ==
    [r \in 0..((n - 1) \div RowSize) |->
        [c \in 0..(IF (r + 1) * RowSize <= n THEN RowSize - 1
                   ELSE n - r * RowSize - 1) |->
            f[r * RowSize + c]]]

\* The number of bytes of a buffer.
RECURSIVE RowsSize(_, _)
RowsSize(buf, rows) ==
    IF rows = {} THEN 0
    ELSE LET r == CHOOSE x \in rows : TRUE
         IN Cardinality(DOMAIN buf[r]) + RowsSize(buf, rows \ {r})

Size(buf) == RowsSize(buf, DOMAIN buf)

\* The element of a set of one element.  A value bound by e \in {...} is
\* computed once, before what uses it.
TheOne(S) == CHOOSE x \in S : TRUE

\* ------------------------------------------------------------ bit operations

RECURSIVE XorBits(_, _)
XorBits(a, b) ==
    IF a = 0 THEN b
    ELSE IF b = 0 THEN a
    ELSE ((a + b) % 2) + 2 * XorBits(a \div 2, b \div 2)

\* a ^ b on bytes, tabulated once.
XorByte == [a \in 0..255 |-> [b \in 0..255 |-> XorBits(a, b)]]

\* a ^ b on values below 2^16.
Xor16(a, b) ==
    XorByte[a % 256][b % 256] + 256 * XorByte[a \div 256][b \div 256]

\* a ^ b on 32-bit values held as four bytes.
Xor32(a, b) == [i \in 1..4 |-> XorByte[a[i]][b[i]]]

\* crc >> 8 on a 32-bit value held as four bytes.
Shr8(a) == <<a[2], a[3], a[4], 0>>

\* ------------------------------------------------------------------ readhex

HexDigit(c) ==
    CASE c = "0" -> 0 [] c = "1" -> 1 [] c = "2" -> 2 [] c = "3" -> 3
      [] c = "4" -> 4 [] c = "5" -> 5 [] c = "6" -> 6 [] c = "7" -> 7
      [] c = "8" -> 8 [] c = "9" -> 9
      [] c = "A" -> 10 [] c = "B" -> 11 [] c = "C" -> 12
      [] c = "D" -> 13 [] c = "E" -> 14 [] c = "F" -> 15
      [] c = "a" -> 10 [] c = "b" -> 11 [] c = "c" -> 12
      [] c = "d" -> 13 [] c = "e" -> 14 [] c = "f" -> 15
      [] OTHER -> 0

\* readhex(text + off, digits): off is the C offset into the line, so the
\* character read first is text[off + 1].
RECURSIVE readhex_from(_, _, _, _)
readhex_from(text, off, digits, result) ==
    IF digits = 0 THEN result
    ELSE readhex_from(text, off + 1, digits - 1,
                      result * 16 + HexDigit(text[off + 1]))

readhex(text, off, digits) == readhex_from(text, off, digits, 0)

\* 0 == strncmp(text + off, two, 2) for a two-character literal.
strncmp2(text, off, c1, c2) == text[off + 1] = c1 /\ text[off + 2] = c2

\* ------------------------------------------------------ calc_modified_crc14

\* One pass of the loop body: result = (data & 1) ^ (crc & 1); crc >>= 1;
\* if (result) crc ^= 0x23B1;
crc14_bit(data, crc) ==
    IF (data + crc) % 2 = 1
    THEN Xor16(crc \div 2, Crc14Poly)
    ELSE crc \div 2

\* The loop for (bit = 0; bit < 16; bit++), from bit on; data >>= 1 ends
\* each pass.
RECURSIVE crc14_bits(_, _, _)
crc14_bits(data, crc, bit) ==
    IF bit = 16 THEN crc
    ELSE TheOne({crc14_bits(d, c, bit + 1) :
                    d \in {data \div 2}, c \in {crc14_bit(data, crc)}})

calc_modified_crc14(data, crc) ==
    TheOne({crc14_bits(d, c, 0) : d \in {data}, c \in {crc}})

\* ---------------------------------------------------------------- crc32_calc

crc32_table == <<
    <<0, 0, 0, 0>>, <<150, 48, 7, 119>>, <<44, 97, 14, 238>>, <<186, 81, 9, 153>>,
    <<25, 196, 109, 7>>, <<143, 244, 106, 112>>, <<53, 165, 99, 233>>, <<163, 149, 100, 158>>,
    <<50, 136, 219, 14>>, <<164, 184, 220, 121>>, <<30, 233, 213, 224>>, <<136, 217, 210, 151>>,
    <<43, 76, 182, 9>>, <<189, 124, 177, 126>>, <<7, 45, 184, 231>>, <<145, 29, 191, 144>>,
    <<100, 16, 183, 29>>, <<242, 32, 176, 106>>, <<72, 113, 185, 243>>, <<222, 65, 190, 132>>,
    <<125, 212, 218, 26>>, <<235, 228, 221, 109>>, <<81, 181, 212, 244>>, <<199, 133, 211, 131>>,
    <<86, 152, 108, 19>>, <<192, 168, 107, 100>>, <<122, 249, 98, 253>>, <<236, 201, 101, 138>>,
    <<79, 92, 1, 20>>, <<217, 108, 6, 99>>, <<99, 61, 15, 250>>, <<245, 13, 8, 141>>,
    <<200, 32, 110, 59>>, <<94, 16, 105, 76>>, <<228, 65, 96, 213>>, <<114, 113, 103, 162>>,
    <<209, 228, 3, 60>>, <<71, 212, 4, 75>>, <<253, 133, 13, 210>>, <<107, 181, 10, 165>>,
    <<250, 168, 181, 53>>, <<108, 152, 178, 66>>, <<214, 201, 187, 219>>, <<64, 249, 188, 172>>,
    <<227, 108, 216, 50>>, <<117, 92, 223, 69>>, <<207, 13, 214, 220>>, <<89, 61, 209, 171>>,
    <<172, 48, 217, 38>>, <<58, 0, 222, 81>>, <<128, 81, 215, 200>>, <<22, 97, 208, 191>>,
    <<181, 244, 180, 33>>, <<35, 196, 179, 86>>, <<153, 149, 186, 207>>, <<15, 165, 189, 184>>,
    <<158, 184, 2, 40>>, <<8, 136, 5, 95>>, <<178, 217, 12, 198>>, <<36, 233, 11, 177>>,
    <<135, 124, 111, 47>>, <<17, 76, 104, 88>>, <<171, 29, 97, 193>>, <<61, 45, 102, 182>>,
    <<144, 65, 220, 118>>, <<6, 113, 219, 1>>, <<188, 32, 210, 152>>, <<42, 16, 213, 239>>,
    <<137, 133, 177, 113>>, <<31, 181, 182, 6>>, <<165, 228, 191, 159>>, <<51, 212, 184, 232>>,
    <<162, 201, 7, 120>>, <<52, 249, 0, 15>>, <<142, 168, 9, 150>>, <<24, 152, 14, 225>>,
    <<187, 13, 106, 127>>, <<45, 61, 109, 8>>, <<151, 108, 100, 145>>, <<1, 92, 99, 230>>,
    <<244, 81, 107, 107>>, <<98, 97, 108, 28>>, <<216, 48, 101, 133>>, <<78, 0, 98, 242>>,
    <<237, 149, 6, 108>>, <<123, 165, 1, 27>>, <<193, 244, 8, 130>>, <<87, 196, 15, 245>>,
    <<198, 217, 176, 101>>, <<80, 233, 183, 18>>, <<234, 184, 190, 139>>, <<124, 136, 185, 252>>,
    <<223, 29, 221, 98>>, <<73, 45, 218, 21>>, <<243, 124, 211, 140>>, <<101, 76, 212, 251>>,
    <<88, 97, 178, 77>>, <<206, 81, 181, 58>>, <<116, 0, 188, 163>>, <<226, 48, 187, 212>>,
    <<65, 165, 223, 74>>, <<215, 149, 216, 61>>, <<109, 196, 209, 164>>, <<251, 244, 214, 211>>,
    <<106, 233, 105, 67>>, <<252, 217, 110, 52>>, <<70, 136, 103, 173>>, <<208, 184, 96, 218>>,
    <<115, 45, 4, 68>>, <<229, 29, 3, 51>>, <<95, 76, 10, 170>>, <<201, 124, 13, 221>>,
    <<60, 113, 5, 80>>, <<170, 65, 2, 39>>, <<16, 16, 11, 190>>, <<134, 32, 12, 201>>,
    <<37, 181, 104, 87>>, <<179, 133, 111, 32>>, <<9, 212, 102, 185>>, <<159, 228, 97, 206>>,
    <<14, 249, 222, 94>>, <<152, 201, 217, 41>>, <<34, 152, 208, 176>>, <<180, 168, 215, 199>>,
    <<23, 61, 179, 89>>, <<129, 13, 180, 46>>, <<59, 92, 189, 183>>, <<173, 108, 186, 192>>,
    <<32, 131, 184, 237>>, <<182, 179, 191, 154>>, <<12, 226, 182, 3>>, <<154, 210, 177, 116>>,
    <<57, 71, 213, 234>>, <<175, 119, 210, 157>>, <<21, 38, 219, 4>>, <<131, 22, 220, 115>>,
    <<18, 11, 99, 227>>, <<132, 59, 100, 148>>, <<62, 106, 109, 13>>, <<168, 90, 106, 122>>,
    <<11, 207, 14, 228>>, <<157, 255, 9, 147>>, <<39, 174, 0, 10>>, <<177, 158, 7, 125>>,
    <<68, 147, 15, 240>>, <<210, 163, 8, 135>>, <<104, 242, 1, 30>>, <<254, 194, 6, 105>>,
    <<93, 87, 98, 247>>, <<203, 103, 101, 128>>, <<113, 54, 108, 25>>, <<231, 6, 107, 110>>,
    <<118, 27, 212, 254>>, <<224, 43, 211, 137>>, <<90, 122, 218, 16>>, <<204, 74, 221, 103>>,
    <<111, 223, 185, 249>>, <<249, 239, 190, 142>>, <<67, 190, 183, 23>>, <<213, 142, 176, 96>>,
    <<232, 163, 214, 214>>, <<126, 147, 209, 161>>, <<196, 194, 216, 56>>, <<82, 242, 223, 79>>,
    <<241, 103, 187, 209>>, <<103, 87, 188, 166>>, <<221, 6, 181, 63>>, <<75, 54, 178, 72>>,
    <<218, 43, 13, 216>>, <<76, 27, 10, 175>>, <<246, 74, 3, 54>>, <<96, 122, 4, 65>>,
    <<195, 239, 96, 223>>, <<85, 223, 103, 168>>, <<239, 142, 110, 49>>, <<121, 190, 105, 70>>,
    <<140, 179, 97, 203>>, <<26, 131, 102, 188>>, <<160, 210, 111, 37>>, <<54, 226, 104, 82>>,
    <<149, 119, 12, 204>>, <<3, 71, 11, 187>>, <<185, 22, 2, 34>>, <<47, 38, 5, 85>>,
    <<190, 59, 186, 197>>, <<40, 11, 189, 178>>, <<146, 90, 180, 43>>, <<4, 106, 179, 92>>,
    <<167, 255, 215, 194>>, <<49, 207, 208, 181>>, <<139, 158, 217, 44>>, <<29, 174, 222, 91>>,
    <<176, 194, 100, 155>>, <<38, 242, 99, 236>>, <<156, 163, 106, 117>>, <<10, 147, 109, 2>>,
    <<169, 6, 9, 156>>, <<63, 54, 14, 235>>, <<133, 103, 7, 114>>, <<19, 87, 0, 5>>,
    <<130, 74, 191, 149>>, <<20, 122, 184, 226>>, <<174, 43, 177, 123>>, <<56, 27, 182, 12>>,
    <<155, 142, 210, 146>>, <<13, 190, 213, 229>>, <<183, 239, 220, 124>>, <<33, 223, 219, 11>>,
    <<212, 210, 211, 134>>, <<66, 226, 212, 241>>, <<248, 179, 221, 104>>, <<110, 131, 218, 31>>,
    <<205, 22, 190, 129>>, <<91, 38, 185, 246>>, <<225, 119, 176, 111>>, <<119, 71, 183, 24>>,
    <<230, 90, 8, 136>>, <<112, 106, 15, 255>>, <<202, 59, 6, 102>>, <<92, 11, 1, 17>>,
    <<255, 158, 101, 143>>, <<105, 174, 98, 248>>, <<211, 255, 107, 97>>, <<69, 207, 108, 22>>,
    <<120, 226, 10, 160>>, <<238, 210, 13, 215>>, <<84, 131, 4, 78>>, <<194, 179, 3, 57>>,
    <<97, 38, 103, 167>>, <<247, 22, 96, 208>>, <<77, 71, 105, 73>>, <<219, 119, 110, 62>>,
    <<74, 106, 209, 174>>, <<220, 90, 214, 217>>, <<102, 11, 223, 64>>, <<240, 59, 216, 55>>,
    <<83, 174, 188, 169>>, <<197, 158, 187, 222>>, <<127, 207, 178, 71>>, <<233, 255, 181, 48>>,
    <<28, 242, 189, 189>>, <<138, 194, 186, 202>>, <<48, 147, 179, 83>>, <<166, 163, 180, 36>>,
    <<5, 54, 208, 186>>, <<147, 6, 215, 205>>, <<41, 87, 222, 84>>, <<191, 103, 217, 35>>,
    <<46, 122, 102, 179>>, <<184, 74, 97, 196>>, <<2, 27, 104, 93>>, <<148, 43, 111, 42>>,
    <<55, 190, 11, 180>>, <<161, 142, 12, 195>>, <<27, 223, 5, 90>>, <<141, 239, 2, 45>>
>>

\* One iteration of crc32_calc's loop:
\* crc = crc32_table[(crc ^ byte) & 0xff] ^ (crc >> 8).
crc32_step(crc, byte) ==
    Xor32(crc32_table[XorByte[crc[1]][byte] + 1], Shr8(crc))

\* crc32_calc(crc, buffer + lo, n): the loop over n bytes, run in halves so
\* that the evaluation stays shallow; the bytes are folded in order.
RECURSIVE crc32_range(_, _, _, _)
crc32_range(crc, buffer, lo, n) ==
    IF n = 0 THEN crc
    ELSE IF n = 1 THEN crc32_step(crc, At(buffer, lo))
    ELSE TheOne({crc32_range(first, buffer, lo + (n \div 2),
                             n - (n \div 2)) :
                    first \in {crc32_range(crc, buffer, lo, n \div 2)}})

crc32_calc(crc, buffer, length) == crc32_range(crc, buffer, 0, length)

\* ------------------------------------------------------------------- input

\* The lines an input file is made of (fgets returns one per call).  Every
\* record is long enough for the fields the code reads from it.
LineComment == <<"#">>
LineLow  == <<":", "0", "2", "0", "3", "F", "F", "0", "0", "A", "A", "B", "B", "9", "7">>
LineHigh == <<":", "0", "2", "7", "F", "F", "F", "0", "0", "C", "C", "D", "D", "D", "7">>
LineCrc  == <<":", "0", "2", "3", "e", "f", "e", "0", "0", "1", "2", "3", "f", "7", "1">>
LineApp  == <<":", "0", "2", "3", "F", "0", "0", "0", "0", "5", "5", "6", "6", "0", "4">>
LineTail == <<":", "0", "1", "4", "0", "0", "F", "0", "0", "7", "7", "3", "9">>
LineExt1 == <<":", "0", "2", "0", "0", "0", "0", "0", "4", "0", "0", "0", "1", "F", "9">>
LineExt0 == <<":", "0", "2", "0", "0", "0", "0", "0", "4", "0", "0", "0", "0", "F", "A">>
LineEof  == <<":", "0", "0", "0", "0", "0", "0", "0", "1", "F", "F">>

Lines == {LineComment, LineLow, LineHigh, LineCrc, LineApp, LineTail,
          LineExt1, LineExt0, LineEof}

\* ------------------------------------------------------------------- state

VARIABLES
    pc,             \* main's position
    ret,            \* <<v>> once main has returned v, <<>> before
    held,           \* the resources acquired and not released
    outfile,        \* the file at argv[2]
    image,          \* the buffer image points to, ImageSize bytes
    out_of_bounds,  \* flags.out_of_bounds
    crc_overlap,    \* flags.crc_overlap
    upper_address,
    line,           \* line[], while a record is being processed
    count,
    address,
    ptr,            \* ptr - line
    crc,
    eof,            \* the input stream's end-of-file indicator
    ferr,           \* the input stream's error indicator
    nread,          \* lines fgets has returned
    stored          \* the offsets image[address] = ... has stored to

vars == <<pc, ret, held, outfile, image, out_of_bounds, crc_overlap,
          upper_address, line, count, address, ptr, crc, eof, ferr, nread,
          stored>>

ImageSize == PM_SIZE_IN_BYTES + DFU_SUFFIX

\* Faulty variant of Sentinel: every byte erased to 0xFF.
SentinelAllOnes(a) == 255

\* The erased word 0x3FFF, low byte first.
Sentinel(a) == IF a % 2 = 0 THEN 255 ELSE 63

Init ==
    /\ pc = "main"
    /\ ret = <<>>
    /\ held = {}
    /\ outfile = Untouched
    /\ image = Buffer(ImageSize, [a \in 0..(ImageSize - 1) |-> Indeterminate])
    /\ out_of_bounds = FALSE
    /\ crc_overlap = FALSE
    /\ upper_address = 0
    /\ line = <<>>
    /\ count = 0
    /\ address = 0
    /\ ptr = 0
    /\ crc = 0
    /\ eof = FALSE
    /\ ferr = FALSE
    /\ nread = 0
    /\ stored = {}

\* --------------------------------------------------- acquiring the resources

\* if (argc < 3) { usage; return -1; }
CheckArgs ==
    /\ pc = "main"
    /\ \E argc \in ArgCounts :
          IF argc < 3
          THEN pc' = "exit" /\ ret' = <<-1>>
          ELSE pc' = "malloc" /\ ret' = ret
    /\ UNCHANGED <<held, outfile, image, out_of_bounds, crc_overlap,
                   upper_address, line, count, address, ptr, crc, eof, ferr,
                   nread, stored>>

\* image = malloc(...); if (NULL == image) return -1;
Malloc ==
    /\ pc = "malloc"
    /\ \E ok \in BOOLEAN :
          IF ok
          THEN pc' = "fopen_input" /\ held' = held \cup {"image"} /\ ret' = ret
          ELSE pc' = "exit" /\ held' = held /\ ret' = <<-1>>
    /\ UNCHANGED <<outfile, image, out_of_bounds, crc_overlap, upper_address,
                   line, count, address, ptr, crc, eof, ferr, nread, stored>>

\* input = fopen(argv[1], "rb"); if (NULL == input) return -1;
FopenInput ==
    /\ pc = "fopen_input"
    /\ \E ok \in BOOLEAN :
          IF ok
          THEN pc' = "fopen_output" /\ held' = held \cup {"input"} /\ ret' = ret
          ELSE pc' = "exit" /\ held' = held /\ ret' = <<-1>>
    /\ UNCHANGED <<outfile, image, out_of_bounds, crc_overlap, upper_address,
                   line, count, address, ptr, crc, eof, ferr, nread, stored>>

\* output = fopen(argv[2], "wb"): mode "wb" creates the file or truncates it
\* to length zero.  if (NULL == output) return -1;
FopenOutput ==
    /\ pc = "fopen_output"
    /\ \E ok \in BOOLEAN :
          IF ok
          THEN /\ pc' = "fill"
               /\ held' = held \cup {"output"}
               /\ outfile' = [opened |-> TRUE, bytes |-> <<>>]
               /\ ret' = ret
          ELSE /\ pc' = "exit"
               /\ held' = held
               /\ outfile' = outfile
               /\ ret' = <<-1>>
    /\ UNCHANGED <<image, out_of_bounds, crc_overlap, upper_address, line,
                   count, address, ptr, crc, eof, ferr, nread, stored>>

\* The sentinel loop over the program memory, memset(&flags, 0, ...) and
\* upper_address = 0.  The loop leaves address at PM_SIZE_IN_BYTES.
Fill ==
    /\ pc = "fill"
    /\ image' = Buffer(ImageSize,
                       [a \in 0..(ImageSize - 1) |->
                           IF a < PM_SIZE_IN_BYTES THEN Sentinel(a)
                           ELSE At(image, a)])
    /\ address' = PM_SIZE_IN_BYTES
    /\ out_of_bounds' = FALSE
    /\ crc_overlap' = FALSE
    /\ upper_address' = 0
    /\ pc' = "while"
    /\ UNCHANGED <<ret, held, outfile, line, count, ptr, crc, eof, ferr,
                   nread, stored>>

\* ------------------------------------------------------- the record loop

\* while (!feof(input))
WhileTest ==
    /\ pc = "while"
    /\ pc' = IF eof THEN "fclose" ELSE "fgets"
    /\ UNCHANGED <<ret, held, outfile, image, out_of_bounds, crc_overlap,
                   upper_address, line, count, address, ptr, crc, eof, ferr,
                   nread, stored>>

\* fgets returns NULL at the end of the file and sets the end-of-file
\* indicator.
FgetsEof ==
    /\ pc = "fgets"
    /\ ~ferr
    /\ eof' = TRUE
    /\ pc' = "while"
    /\ UNCHANGED <<ret, held, outfile, image, out_of_bounds, crc_overlap,
                   upper_address, line, count, address, ptr, crc, ferr, nread,
                   stored>>

\* fgets returns NULL on a read error (the input is a directory, the device
\* fails): the error indicator is set, the end-of-file indicator is not, and
\* every later read fails the same way.
FgetsError ==
    /\ pc = "fgets"
    /\ ferr' = TRUE
    /\ pc' = "while"
    /\ UNCHANGED <<ret, held, outfile, image, out_of_bounds, crc_overlap,
                   upper_address, line, count, address, ptr, crc, eof, nread,
                   stored>>

\* fgets returns the next line of the file into line[].
FgetsLine ==
    /\ pc = "fgets"
    /\ ~ferr
    /\ nread < MaxLines
    /\ \E l \in Lines : line' = l
    /\ nread' = nread + 1
    /\ pc' = "record"
    /\ UNCHANGED <<ret, held, outfile, image, out_of_bounds, crc_overlap,
                   upper_address, count, address, ptr, crc, eof, ferr, stored>>

\* if (':' == line[0]) fails: the line is skipped.
SkipLine ==
    /\ pc = "record"
    /\ line[1] # ":"
    /\ line' = <<>>
    /\ pc' = "while"
    /\ UNCHANGED <<ret, held, outfile, image, out_of_bounds, crc_overlap,
                   upper_address, count, address, ptr, crc, eof, ferr, nread,
                   stored>>

\* Faulty variant of IsDataRecord: the extended address is not consulted.
IsDataRecordAnyUpper(l, upper) == strncmp2(l, 7, "0", "0")

\* The test of a data record: type "00" and no upper address.
IsDataRecord(l, upper) == strncmp2(l, 7, "0", "0") /\ 0 = upper

\* A data record: count and address are read and the byte loop starts at
\* ptr = line + 9.
DataRecord ==
    /\ pc = "record"
    /\ line[1] = ":"
    /\ IsDataRecord(line, upper_address)
    /\ count' = readhex(line, 1, 2)
    /\ address' = readhex(line, 3, 4)
    /\ ptr' = 9
    /\ pc' = "data"
    /\ UNCHANGED <<ret, held, outfile, image, out_of_bounds, crc_overlap,
                   upper_address, line, crc, eof, ferr, nread, stored>>

\* A type "04" record: upper_address = readhex(line + 9, 4).
ExtendedAddressRecord ==
    /\ pc = "record"
    /\ line[1] = ":"
    /\ ~IsDataRecord(line, upper_address)
    /\ strncmp2(line, 7, "0", "4")
    /\ address' = readhex(line, 3, 4)
    /\ upper_address' = readhex(line, 9, 4)
    /\ line' = <<>>
    /\ pc' = "while"
    /\ UNCHANGED <<ret, held, outfile, image, out_of_bounds, crc_overlap,
                   count, ptr, crc, eof, ferr, nread, stored>>

\* A type "01" record: break.
EndOfFileRecord ==
    /\ pc = "record"
    /\ line[1] = ":"
    /\ ~IsDataRecord(line, upper_address)
    /\ ~strncmp2(line, 7, "0", "4")
    /\ strncmp2(line, 7, "0", "1")
    /\ address' = readhex(line, 3, 4)
    /\ line' = <<>>
    /\ pc' = "fclose"
    /\ UNCHANGED <<ret, held, outfile, image, out_of_bounds, crc_overlap,
                   upper_address, count, ptr, crc, eof, ferr, nread, stored>>

\* Any other record, a type "00" record under a non-zero upper address
\* included: none of the three branches is taken.
IgnoredRecord ==
    /\ pc = "record"
    /\ line[1] = ":"
    /\ ~IsDataRecord(line, upper_address)
    /\ ~strncmp2(line, 7, "0", "4")
    /\ ~strncmp2(line, 7, "0", "1")
    /\ address' = readhex(line, 3, 4)
    /\ line' = <<>>
    /\ pc' = "while"
    /\ UNCHANGED <<ret, held, outfile, image, out_of_bounds, crc_overlap,
                   upper_address, count, ptr, crc, eof, ferr, nread, stored>>

\* ------------------------------------------------------------ the byte loop

\* (address < 0x400) || (address >= 0x8000)
OutOfWindow(a) == a < WindowLow \/ a >= WindowHigh

\* while (count--) fails: back to the record loop.
DataDone ==
    /\ pc = "data"
    /\ count = 0
    /\ line' = <<>>
    /\ ptr' = 0
    /\ pc' = "while"
    /\ UNCHANGED <<ret, held, outfile, image, out_of_bounds, crc_overlap,
                   upper_address, count, address, crc, eof, ferr, nread,
                   stored>>

\* flags.out_of_bounds = 1; address++; ptr += 2;
DataOutOfWindow ==
    /\ pc = "data"
    /\ count > 0
    /\ OutOfWindow(address)
    /\ out_of_bounds' = TRUE
    /\ count' = count - 1
    /\ address' = address + 1
    /\ ptr' = ptr + 2
    /\ UNCHANGED <<pc, ret, held, outfile, image, crc_overlap, upper_address,
                   line, crc, eof, ferr, nread, stored>>

\* image[address] = readhex(ptr, 2), inside the allocation.
DataStore ==
    /\ pc = "data"
    /\ count > 0
    /\ ~OutOfWindow(address)
    /\ address < ImageSize
    /\ image' = StoreAt(image, address, readhex(line, ptr, 2))
    /\ stored' = stored \cup {address}
    /\ count' = count - 1
    /\ address' = address + 1
    /\ ptr' = ptr + 2
    /\ UNCHANGED <<pc, ret, held, outfile, out_of_bounds, crc_overlap,
                   upper_address, line, crc, eof, ferr, nread>>

\* image[address] = readhex(ptr, 2), past the end of the allocation: the
\* behaviour is undefined.  Either the store faults and the process is killed,
\* or it lands in memory that is not the image and main goes on.
DataStoreOverrun ==
    /\ pc = "data"
    /\ count > 0
    /\ ~OutOfWindow(address)
    /\ address >= ImageSize
    /\ stored' = stored \cup {address}
    /\ \E faults \in BOOLEAN :
          IF faults
          THEN /\ pc' = "killed"
               /\ UNCHANGED <<count, address, ptr>>
          ELSE /\ pc' = pc
               /\ count' = count - 1
               /\ address' = address + 1
               /\ ptr' = ptr + 2
    /\ UNCHANGED <<ret, held, outfile, image, out_of_bounds, crc_overlap,
                   upper_address, line, crc, eof, ferr, nread>>

\* ------------------------------------------------------------ after the loop

\* fclose(input): the stream is gone, and its indicators with it.
FcloseInput ==
    /\ pc = "fclose"
    /\ held' = held \ {"input"}
    /\ eof' = FALSE
    /\ ferr' = FALSE
    /\ nread' = 0
    /\ pc' = "check_oob"
    /\ UNCHANGED <<ret, outfile, image, out_of_bounds, crc_overlap,
                   upper_address, line, count, address, ptr, crc, stored>>

\* if (flags.out_of_bounds) goto skip_write;
\* address = CODE_OFFSET_ADDRESS << 1; crc = 0;
CheckOutOfBounds ==
    /\ pc = "check_oob"
    /\ IF out_of_bounds
       THEN pc' = "skip_write" /\ UNCHANGED <<address, crc>>
       ELSE /\ pc' = "crc14"
            /\ address' = CODE_OFFSET_ADDRESS * 2
            /\ crc' = 0
    /\ UNCHANGED <<ret, held, outfile, image, out_of_bounds, crc_overlap,
                   upper_address, line, count, ptr, eof, ferr, nread, stored>>

\* Faulty variant of Crc14AtEnd: the loop stops at the boundary word itself.
Crc14AtBoundary(a) == HIGH_ENDURANCE_ADDRESS * 2 = a

\* The test that ends the CRC-14 loop:
\* next_address = address + 2; (HIGH_ENDURANCE_ADDRESS << 1) == next_address.
Crc14AtEnd(a) == HIGH_ENDURANCE_ADDRESS * 2 = a + 2

\* One iteration of for (;;) that does not break: the word at address is
\* folded into crc and address moves on.  s.stop says the break was reached.
crc14_iter(img, s) ==
    IF Crc14AtEnd(s.address)
    THEN [s EXCEPT !.stop = TRUE]
    ELSE [address |-> s.address + 2,
          crc |-> calc_modified_crc14(
                      At(img, s.address) + At(img, s.address + 1) * 256,
                      s.crc),
          stop |-> FALSE]

\* Faulty variant of CrcOccupied: both bytes must differ from the sentinel.
CrcOccupiedBoth(img, a) == 255 # At(img, a) /\ 63 # At(img, a + 1)

\* (0xFF != image[address + 0]) || (0x3F != image[address + 1])
CrcOccupied(img, a) == 255 # At(img, a) \/ 63 # At(img, a + 1)

\* At most n iterations of the loop, run in halves so that the evaluation
\* stays shallow; the iterations are made in order.
RECURSIVE crc14_loop(_, _, _)
crc14_loop(img, s, n) ==
    IF s.stop \/ n = 0 THEN s
    ELSE IF n = 1 THEN crc14_iter(img, s)
    ELSE TheOne({crc14_loop(img, first, n - (n \div 2)) :
                    first \in {crc14_loop(img, s, n \div 2)}})

\* The CRC-14 loop.  At the break: crc_overlap is set from the two bytes at
\* address, and crc is stored there, low byte first.
PassA ==
    /\ pc = "crc14"
    /\ \E s \in {crc14_loop(image,
                            [address |-> address, crc |-> crc, stop |-> FALSE],
                            MaxIter)} :
          /\ address' = s.address
          /\ crc' = s.crc
          /\ IF s.stop
             THEN /\ crc_overlap' = CrcOccupied(image, s.address)
                  /\ image' = StoreAt(StoreAt(image, s.address, s.crc % 256),
                                       s.address + 1, (s.crc \div 256) % 256)
                  /\ pc' = "check_overlap"
             ELSE UNCHANGED <<crc_overlap, image, pc>>
    /\ UNCHANGED <<ret, held, outfile, out_of_bounds, upper_address, line,
                   count, ptr, eof, ferr, nread, stored>>

\* if (flags.crc_overlap) goto skip_write;
CheckOverlap ==
    /\ pc = "check_overlap"
    /\ pc' = IF crc_overlap THEN "skip_write" ELSE "suffix"
    /\ UNCHANGED <<ret, held, outfile, image, out_of_bounds, crc_overlap,
                   upper_address, line, count, address, ptr, crc, eof, ferr,
                   nread, stored>>

\* The twelve suffix bytes that are stored before the CRC-32 is computed.
SuffixHead ==
    << 255, 255,
       USB_PRODUCT_ID % 256, (USB_PRODUCT_ID \div 256) % 256,
       USB_VENDOR_ID % 256, (USB_VENDOR_ID \div 256) % 256,
       0, 1,
       85, 70, 68,
       DFU_SUFFIX >>

\* Faulty variant of Crc32Init: the register starts at zero.
Crc32InitZero == <<0, 0, 0, 0>>

\* The initial CRC-32 register, 0xFFFFFFFF.
Crc32Init == <<255, 255, 255, 255>>

\* The suffix, the CRC-32 over the image and the first twelve suffix bytes,
\* fwrite of the whole buffer and fclose(output).
WriteSuffix ==
    /\ pc = "suffix"
    /\ LET headed == Buffer(ImageSize,
                            [a \in 0..(ImageSize - 1) |->
                               IF a >= PM_SIZE_IN_BYTES
                                  /\ a < PM_SIZE_IN_BYTES + Len(SuffixHead)
                               THEN SuffixHead[a - PM_SIZE_IN_BYTES + 1]
                               ELSE At(image, a)])
           written == PM_SIZE_IN_BYTES + Len(SuffixHead) + 4
       IN \E reg \in {crc32_calc(Crc32Init, headed,
                                 PM_SIZE_IN_BYTES + Len(SuffixHead))} :
             /\ crc' = reg
             /\ image' = Buffer(ImageSize,
                                [a \in 0..(ImageSize - 1) |->
                                   IF a >= PM_SIZE_IN_BYTES + Len(SuffixHead)
                                   THEN reg[a - PM_SIZE_IN_BYTES
                                              - Len(SuffixHead) + 1]
                                   ELSE At(headed, a)])
             /\ count' = Len(SuffixHead) + 4
             /\ outfile' = [outfile EXCEPT !.bytes =
                              Buffer(written, [a \in 0..(written - 1) |->
                                                 At(image', a)])]
    /\ held' = held \ {"output"}
    /\ pc' = "skip_write"
    /\ UNCHANGED <<ret, out_of_bounds, crc_overlap, upper_address, line,
                   address, ptr, eof, ferr, nread, stored>>

\* skip_write: free(image); return 0;
SkipWrite ==
    /\ pc = "skip_write"
    /\ held' = held \ {"image"}
    /\ ret' = <<0>>
    /\ pc' = "exit"
    /\ UNCHANGED <<outfile, image, out_of_bounds, crc_overlap, upper_address,
                   line, count, address, ptr, crc, eof, ferr, nread, stored>>

Next ==
    \/ CheckArgs
    \/ Malloc
    \/ FopenInput
    \/ FopenOutput
    \/ Fill
    \/ WhileTest
    \/ FgetsEof
    \/ FgetsError
    \/ FgetsLine
    \/ SkipLine
    \/ DataRecord
    \/ ExtendedAddressRecord
    \/ EndOfFileRecord
    \/ IgnoredRecord
    \/ DataDone
    \/ DataOutOfWindow
    \/ DataStore
    \/ DataStoreOverrun
    \/ FcloseInput
    \/ CheckOutOfBounds
    \/ PassA
    \/ CheckOverlap
    \/ WriteSuffix
    \/ SkipWrite

Spec == Init /\ [][Next]_vars

\* main is a sequential program that is always scheduled: whenever a step is
\* possible, one is taken.
FairSpec == Init /\ [][Next]_vars /\ WF_vars(Next)

\* ------------------------------------------------------------------ claims

\* main has returned through skip_write (return 0).
Returned0 == pc = "exit" /\ ret = <<0>>

\* C1: if out_of_bounds or crc_overlap is set at the end of the pass, the
\* program has never created, truncated or written the file at the output
\* path: the path holds what it held before the run.
C1_NoOutputOnFailure ==
    (Returned0 /\ (out_of_bounds \/ crc_overlap)) => outfile = Untouched

\* C2: every payload byte of a data record accepted while upper_address is 0,
\* at running address a: if a < 0x400 or a >= 0x8000, out_of_bounds becomes
\* true and the image is not written; otherwise the byte is written at offset
\* a of the image and out_of_bounds is not changed.  out_of_bounds is sticky.
C2_WindowGating ==
    [][ /\ (pc = "data" /\ count > 0 /\ upper_address = 0) =>
              IF address < 1024 \/ address >= 32768
              THEN out_of_bounds' /\ image' = image
              ELSE /\ address < 16400
                   /\ At(image', address) = readhex(line, ptr, 2)
                   /\ out_of_bounds' = out_of_bounds
        /\ out_of_bounds => out_of_bounds' ]_vars

\* C7: every resource that was acquired has been released when main returns,
\* on every exit path.
C7_AllReleased == pc = "exit" => held = {}

\* C9: no accepted data byte is stored at an offset >= 0x4000: every store of
\* a data record lands inside the 16384-byte program-memory region.
C9_StoresInProgramMemory == \A a \in stored : a < 16384

\* C10: the program always terminates, a read error that leaves the
\* end-of-file indicator unset included.
C10_Terminates == <>(pc \in {"exit", "killed"})

\* The CRC-14 of the n words of buf from byte offset lo on, starting from c:
\* each little-endian word folded in turn.
RECURSIVE Crc14OfWords(_, _, _, _)
Crc14OfWords(buf, lo, n, c) ==
    IF n = 0 THEN c
    ELSE IF n = 1
    THEN calc_modified_crc14(At(buf, lo) + 256 * At(buf, lo + 1), c)
    ELSE TheOne({Crc14OfWords(buf, lo + 2 * (n \div 2), n - (n \div 2), h) :
                    h \in {Crc14OfWords(buf, lo, n \div 2, c)}})

\* C3 as stated: after Pass A the crc is stored, low byte then high byte, at
\* byte offsets 0x3F00 and 0x3F01, and covers the words from 0x400 up to there.
C3_StoredAtBoundary ==
    pc = "check_overlap" =>
        /\ At(image, 16128) = crc % 256
        /\ At(image, 16129) = (crc \div 256) % 256
        /\ crc = Crc14OfWords(image, 1024, (16128 - 1024) \div 2, 0)

\* C3, amended: Pass A starts with crc = 0 at byte offset 0x400 and folds each
\* little-endian word in 2-byte steps; it stops when the next address is the
\* high-endurance boundary, so the crc is stored, low byte then high byte, at
\* byte offsets 0x3EFE and 0x3EFF (word 0x1F7F, the last word below the
\* boundary) and covers exactly the words at byte offsets 0x400 to 0x3EFC.
C3_StoredBelowBoundary ==
    pc = "check_overlap" =>
        /\ address = 16126
        /\ At(image, 16126) = crc % 256
        /\ At(image, 16127) = (crc \div 256) % 256
        /\ crc = Crc14OfWords(image, 1024, (16126 - 1024) \div 2, 0)

\* Pass A has run over an image that holds application data at 0x3F00.
C3_Witness == pc = "check_overlap" /\ 16128 \in stored /\ ~crc_overlap

\* C4: when out_of_bounds is false after record processing, crc_overlap is set
\* exactly when the two bytes at the checksum location (0x3EFE, 0x3EFF) differ
\* from (0xFF, 0x3F) as Pass A reaches them; with crc_overlap set nothing is
\* written to the output, and with no flag set the image is what is written.
C4_OverlapDetection ==
    [][ /\ (pc = "crc14" /\ pc' = "check_overlap") =>
              (crc_overlap' <=>
                  (At(image, 16126) # 255 \/ At(image, 16127) # 63))
        /\ crc_overlap' => outfile'.bytes = <<>>
        /\ (pc' = "exit" /\ ret' = <<0>> /\ ~out_of_bounds' /\ ~crc_overlap') =>
              /\ outfile'.bytes # <<>>
              /\ \A a \in 0..16399 : At(outfile'.bytes, a) = At(image', a)
      ]_vars

\* A run has ended with crc_overlap set by a record that stored at 0x3EFE.
C4_Witness == Returned0 /\ crc_overlap /\ 16126 \in stored /\ outfile.opened

\* C5: a type-00 record read while upper_address is non-zero is ignored (image,
\* flags and upper_address unchanged, whatever its addresses); a type-04 record
\* sets upper_address to its 4-hex-digit value and changes nothing else; a
\* type-00 record read while upper_address is zero enters the byte loop.
C5_ExtendedAddressGating ==
    [][ /\ (pc = "record" /\ line[1] = ":") =>
              IF line[8] = "0" /\ line[9] = "0"
              THEN IF upper_address # 0
                   THEN /\ image' = image
                        /\ out_of_bounds' = out_of_bounds
                        /\ crc_overlap' = crc_overlap
                        /\ stored' = stored
                        /\ upper_address' = upper_address
                        /\ pc' = "while"
                   ELSE /\ pc' = "data"
                        /\ count' = readhex(line, 1, 2)
                        /\ address' = readhex(line, 3, 4)
              ELSE IF line[8] = "0" /\ line[9] = "4"
              THEN /\ upper_address' = readhex(line, 9, 4)
                   /\ (line = LineExt1 => upper_address' = 1)
                   /\ (line = LineExt0 => upper_address' = 0)
                   /\ image' = image
                   /\ out_of_bounds' = out_of_bounds
                   /\ crc_overlap' = crc_overlap
                   /\ stored' = stored
                   /\ outfile' = outfile
              ELSE TRUE
        /\ pc' = "data" => upper_address' = 0
      ]_vars

\* The record at 0x03FF was read under a non-zero upper address and ignored:
\* address holds its address, nothing was stored and no flag was set.
C5_Witness ==
    /\ pc = "while"
    /\ upper_address # 0
    /\ address = 1023
    /\ stored = {}
    /\ ~out_of_bounds

\* The reflected IEEE CRC-32 register, bit by bit: the register is shifted
\* right and 0xEDB88320 is fed back when the bit shifted out is 1.
Crc32Bit(reg) ==
    LET shifted == << (reg[1] \div 2) + 128 * (reg[2] % 2),
                      (reg[2] \div 2) + 128 * (reg[3] % 2),
                      (reg[3] \div 2) + 128 * (reg[4] % 2),
                      reg[4] \div 2 >>
    IN IF reg[1] % 2 = 1 THEN Xor32(shifted, <<32, 131, 184, 237>>)
       ELSE shifted

RECURSIVE Crc32Bits(_, _)
Crc32Bits(reg, k) ==
    IF k = 0 THEN reg
    ELSE TheOne({Crc32Bits(r, k - 1) : r \in {Crc32Bit(reg)}})

Crc32Byte(reg, byte) ==
    Crc32Bits(<<XorByte[reg[1]][byte], reg[2], reg[3], reg[4]>>, 8)

\* The register after the n bytes of buf from lo on, with no final inversion.
RECURSIVE Crc32OfBytes(_, _, _, _)
Crc32OfBytes(reg, buf, lo, n) ==
    IF n = 0 THEN reg
    ELSE IF n = 1 THEN Crc32Byte(reg, At(buf, lo))
    ELSE TheOne({Crc32OfBytes(h, buf, lo + (n \div 2), n - (n \div 2)) :
                    h \in {Crc32OfBytes(reg, buf, lo, n \div 2)}})

\* C6: on every successful run the output is exactly 16400 bytes: the
\* 16384-byte image, then FF FF 01 00 34 12 00 01 'U' 'F' 'D' 10, then the
\* little-endian CRC-32 register over the preceding 16396 bytes (initial value
\* 0xFFFFFFFF, reflected IEEE polynomial, no final XOR).
C6_OutputFormat ==
    (Returned0 /\ ~out_of_bounds /\ ~crc_overlap) =>
        /\ outfile.bytes # <<>>
        /\ Size(outfile.bytes) = 16400
        /\ \A a \in 0..16383 : At(outfile.bytes, a) = At(image, a)
        /\ \A i \in 1..12 :
              At(outfile.bytes, 16383 + i) =
                 <<255, 255, 1, 0, 52, 18, 0, 1, 85, 70, 68, 16>>[i]
        /\ << At(outfile.bytes, 16396), At(outfile.bytes, 16397),
              At(outfile.bytes, 16398), At(outfile.bytes, 16399) >>
              = Crc32OfBytes(<<255, 255, 255, 255>>, outfile.bytes, 0, 16396)

\* A successful run whose image holds a data record.
C6_Witness ==
    Returned0 /\ ~out_of_bounds /\ ~crc_overlap /\ stored # {}
       /\ outfile.bytes # <<>>

\* The buffer has been filled and main has not left through an early return.
Filled ==
    \/ pc \in {"while", "fgets", "record", "data", "fclose", "check_oob",
               "crc14", "check_overlap", "suffix", "skip_write", "killed"}
    \/ Returned0

\* Pass A has stored the checksum.
Crc14Stored ==
    \/ pc \in {"check_overlap", "suffix"}
    \/ (pc \in {"skip_write", "exit"} /\ ret # <<-1>> /\ ~out_of_bounds)

\* A row of erased words.
ErasedRow == [c \in 0..(RowSize - 1) |-> IF c % 2 = 0 THEN 255 ELSE 63]

\* Every byte of the program-memory region of buf holds the erased sentinel,
\* except at the offsets in exempt.  A row that holds no exempt offset is
\* compared whole.
ErasedExcept(buf, exempt) ==
    \A r \in 0..((16384 \div RowSize) - 1) :
        IF \E a \in exempt : a \div RowSize = r
        THEN \A c \in 0..(RowSize - 1) :
                (r * RowSize + c) \notin exempt
                   => buf[r][c] = (IF c % 2 = 0 THEN 255 ELSE 63)
        ELSE buf[r] = ErasedRow

\* C8: at every point of record processing and in every written output, each
\* byte of the program-memory region that no data record stored holds the
\* erased sentinel (0xFF at even offsets, 0x3F at odd ones), except the two
\* checksum bytes after Pass A; the region [0, 0x400) is all sentinel.
C8_SentinelInvariant ==
    /\ Filled =>
          /\ ErasedExcept(image, IF Crc14Stored THEN stored \cup {16126, 16127}
                                 ELSE stored)
          /\ \A a \in 0..1023 : At(image, a) = (IF a % 2 = 0 THEN 255 ELSE 63)
    /\ outfile.bytes # <<>> =>
          /\ ErasedExcept(outfile.bytes, stored \cup {16126, 16127})
          /\ \A a \in 0..1023 :
                At(outfile.bytes, a) = (IF a % 2 = 0 THEN 255 ELSE 63)

\* An output was written for an input with a data record inside the window.
C8_Witness == pc = "exit" /\ outfile.bytes # <<>> /\ 16129 \in stored

====
